---- MODULE Spec2Model ----
(***************************************************************************)
(* Model of src/src/rome.js: the first-person control loop of the Rome     *)
(* world (keyboard handlers, ground probe, wall-slide adjuster, movement   *)
(* integrator, fixed-step physics driver, camera synchronizer, debug view  *)
(* toggle) and the init() function that wires it up.                       *)
(*                                                                         *)
(* Numbers.  JS Numbers are modelled in exact fixed-point arithmetic:      *)
(* every length, velocity and direction component is an integer count of   *)
(* 1/ONE units (0.07 is 70), and time is an integer count of grid points,  *)
(* FIXED_TIME_STEP of them to one physics tick of 1/60 s.  The inputs are  *)
(* drawn from sets on which every division of the code is exact.           *)
(*                                                                         *)
(* Libraries.  The Rapier world is an opaque collaborator: world.step()    *)
(* may move the body, change its velocity and change what a ray cast       *)
(* returns; the model lets it choose any of a bounded set of outcomes.     *)
(***************************************************************************)
EXTENDS Integers, FiniteSets, Sequences, TLC

\* ------------------------------------------------------------------ numbers

\* fixed-point scale: 1.0 is ONE units
ONE == 10 * 100

Abs(a) == IF a < 0 THEN -a ELSE a

Min(a, b) == IF a <= b THEN a ELSE b

\* a / b for b > 0, truncating toward zero (exact on the inputs used)
Div(a, b) == IF a >= 0 THEN a \div b ELSE -((-a) \div b)

\* a * b of two fixed-point numbers
Mul(a, b) == Div(a * b, ONE)

RECURSIVE SqrtIn(_, _, _)
\* the largest r in lo..hi with r * r <= n, by bisection (lo * lo <= n)
SqrtIn(n, lo, hi) ==
  IF lo >= hi THEN lo
  ELSE LET mid == (lo + hi + 1) \div 2
       IN  IF mid * mid <= n THEN SqrtIn(n, mid, hi) ELSE SqrtIn(n, lo, mid - 1)

\* Math.sqrt on the grid: the largest r with r * r <= n (n below 2^31, so
\* the root is below 46341)
Sqrt(n) == SqrtIn(n, 0, Min(n, 46340))

\* ------------------------------------------------------------------ vectors

Vec(x, y, z) == [x |-> x, y |-> y, z |-> z]

Zero == Vec(0, 0, 0)

\* THREE.Vector3 operations used by the code (fixed-point).  A squared length
\* is kept in squared units, 1/(ONE * ONE), so that no precision is lost.
LengthSq(v) == v.x * v.x + v.y * v.y + v.z * v.z

Length(v) == Sqrt(v.x * v.x + v.y * v.y + v.z * v.z)

\* v.divideScalar(len || 1)
DivideByLength(v, len) ==
  IF len = 0 THEN v
  ELSE Vec(Div(v.x * ONE, len), Div(v.y * ONE, len), Div(v.z * ONE, len))

Normalize(v) == DivideByLength(v, Length(v))

Dot(a, b) == Div(a.x * b.x + a.y * b.y + a.z * b.z, ONE)

Add(a, b) == Vec(a.x + b.x, a.y + b.y, a.z + b.z)

Sub(a, b) == Vec(a.x - b.x, a.y - b.y, a.z - b.z)

MultiplyScalar(v, s) == Vec(Mul(v.x, s), Mul(v.y, s), Mul(v.z, s))

AddScaledVector(v, n, s) == Add(v, MultiplyScalar(n, s))

\* a x b
Cross(a, b) ==
  Vec(Mul(a.y, b.z) - Mul(a.z, b.y),
      Mul(a.z, b.x) - Mul(a.x, b.z),
      Mul(a.x, b.y) - Mul(a.y, b.x))

\* ------------------------------------------------------------------ configuration

\* 0.7
GLOBAL_SCALE == 700

MOVE_SPEED == Mul(3 * ONE, GLOBAL_SCALE)

PLAYER_RADIUS == Mul(100, GLOBAL_SCALE)

PLAYER_HALF_HEIGHT == Mul(500, GLOBAL_SCALE)

PLAYER_EYE_HEIGHT == Mul(ONE, GLOBAL_SCALE)

PLAYER_JUMP_SPEED == Mul(8 * ONE, GLOBAL_SCALE)

\* grid points of time in one physics tick
Resolution == 3

\* 1 / 60 s, in grid points
FIXED_TIME_STEP == Resolution

MAX_SUBSTEPS == 5

\* the frame-time clamp 0.1 s = 6 * (1/60 s)
MAX_FRAME_TIME == 6 * FIXED_TIME_STEP

\* ------------------------------------------------------------------ inputs

\* every e.code a handler tells apart, and one it does not
KeyCodes == {"KeyW", "KeyS", "KeyD", "KeyA", "KeyR", "KeyF", "KeyM", "Space", "KeyP"}

\* what world.castRayAndGetNormal returns: null, or a hit with its time of
\* impact and surface normal
NoHit == [hit |-> FALSE, toi |-> 0, normal |-> Zero]

Hit(toi, normal) == [hit |-> TRUE, toi |-> toi, normal |-> normal]

\* ------------------------------------------------------------------ state

VARIABLES
  initState,           \* where init() is: "awaitRapier", "running" (returned), "aborted" (threw)
  rapierReady,         \* the Rapier WASM module is initialised
  errorLogged,         \* what console.error("Failed to initialize Rapier:", error) logged
  isLocked,            \* controls.isLocked
  keyState,            \* keyState[e.code], undefined read as false
  debugMode,
  splatsLoaded,
  sceneChildren,       \* which of splatMesh and environment are children of scene
  environment,         \* the wireframe mesh: whether it was created, and its visible flag
  playerBody,          \* the rigid body: whether it was created, translation(), linvel()
  downRay,             \* what the world returns for the ground probe's ray at the body's place
  camera,              \* camera.position, and the direction the look controller gave it
  physicsAccumulator,
  frameTime,           \* the last animate()'s frameTime
  steps,               \* the last animate()'s steps
  renders,             \* whether renderer.render was called, and the camera position it drew
  call,                \* a function applied on its own: its arguments and what it returned
  frame,               \* animate() followed statement by statement: where it is, and the calls it made
  ledger               \* history: the world.step() calls and the frame time of all frames so far

vars ==
  <<initState, rapierReady, errorLogged, isLocked, keyState, debugMode, splatsLoaded,
    sceneChildren, environment, playerBody, downRay, camera, physicsAccumulator,
    frameTime, steps, renders, call, frame, ledger>>

\* ------------------------------------------------------------------ ray casts

\* world.castRayAndGetNormal(ray, maxToi, true), for the nearest surface along
\* the ray: the hit if the surface lies within maxToi, else null.  Rapier's
\* RayColliderIntersection always carries a normal, so the code's fallbacks
\* for a hit without one (normalY = 1.0, no wall adjustment) are never taken.
CastRayAndGetNormal(surface, maxToi) ==
  IF surface.hit /\ surface.toi <= maxToi THEN surface ELSE NoHit

\* ------------------------------------------------------------------ ground probe

\* isPlayerGrounded() for a body, given the nearest surface straight below it
FootOffset == PLAYER_HALF_HEIGHT + PLAYER_RADIUS

\* as GroundedOn, but without the test of the vertical velocity
GroundedOnAnyVelocity(hit, vy) ==
  IF ~hit.hit THEN FALSE
  ELSE hit.toi <= FootOffset + 120 /\ hit.normal.y > 300

\* nearGround && vy <= 0.6 for a hit, false for null
GroundedOn(hit, vy) ==
  IF ~hit.hit THEN FALSE
  ELSE (hit.toi <= FootOffset + 120 /\ hit.normal.y > 300) /\ vy <= 600

IsPlayerGroundedOf(body, below) ==
  IF ~body.exists THEN FALSE
  ELSE GroundedOn(CastRayAndGetNormal(below, FootOffset + 600), body.linvel.y)

isPlayerGrounded == IsPlayerGroundedOf(playerBody, downRay)

\* ------------------------------------------------------------------ wall slide

\* as RemoveComponent, but adding the component instead of removing it
RemoveComponentWrongSign(v, n, vn) == IF vn > 0 THEN AddScaledVector(v, n, vn) ELSE v

\* if (vn > 0) v.addScaledVector(n, -vn), for vn = v.dot(n)
RemoveComponent(v, n, vn) == IF vn > 0 THEN AddScaledVector(v, n, -vn) ELSE v

\* the slide along a wall of horizontal normal n: nothing unless
\* n.lengthSq() > 0.0001, else n is normalized and v's component along it removed
SlideAlong(v, n) ==
  IF LengthSq(n) > Div(ONE * ONE, 10000)
  THEN RemoveComponent(v, Normalize(n), Dot(v, Normalize(n)))
  ELSE v

\* the part of adjustVelocityForWalls after the ray cast: const normal =
\* hit?.normal; if (normal) { n = normal with n.y = 0; ... }
SlideOnHit(v, hit) ==
  IF hit.hit THEN SlideAlong(v, Vec(hit.normal.x, 0, hit.normal.z)) ELSE v

\* adjustVelocityForWalls(desiredVel), given the nearest surface along the
\* horizontal direction of desiredVel; the lookahead is PLAYER_RADIUS + 0.1
adjustVelocityForWalls(desiredVel, ahead) ==
  IF LengthSq(desiredVel) = 0 THEN desiredVel
  ELSE IF Length(Vec(desiredVel.x, 0, desiredVel.z)) = 0 THEN desiredVel
  ELSE SlideOnHit(desiredVel, CastRayAndGetNormal(ahead, PLAYER_RADIUS + 100))

\* ------------------------------------------------------------------ movement

\* camera.up
CameraUp == Vec(0, ONE, 0)

\* camera.getWorldDirection(forward); forward.y = 0; forward.normalize()
Forward(cam) == Normalize(Vec(cam.direction.x, 0, cam.direction.z))

\* right.crossVectors(forward, camera.up).normalize()
Right(forward) == Normalize(Cross(forward, CameraUp))

\* if (held) v.add(w)
AddIf(held, v, w) == IF held THEN Add(v, w) ELSE v

\* if (held) v.sub(w)
SubIf(held, v, w) == IF held THEN Sub(v, w) ELSE v

\* as MoveDir, but without the test of KeyS
MoveDirWithoutBack(keys, forward, right) ==
  SubIf(keys["KeyA"], AddIf(keys["KeyD"], AddIf(keys["KeyW"], Zero, forward), right), right)

\* moveDir after the four key tests
MoveDir(keys, forward, right) ==
  SubIf(keys["KeyA"],
        AddIf(keys["KeyD"],
              SubIf(keys["KeyS"], AddIf(keys["KeyW"], Zero, forward), forward),
              right),
        right)

\* targetX and targetZ, as the x and z of a vector
TargetHorizontal(moveDir, ahead) ==
  IF LengthSq(moveDir) > 0
  THEN adjustVelocityForWalls(MultiplyScalar(Normalize(moveDir), MOVE_SPEED), ahead)
  ELSE Zero

\* as TargetY, but starting from rest instead of the current vertical velocity
TargetYFromRest(currentY, keys) ==
  (IF keys["KeyR"] THEN MOVE_SPEED ELSE 0) - (IF keys["KeyF"] THEN MOVE_SPEED ELSE 0)

\* targetY
TargetY(currentY, keys) ==
  currentY + (IF keys["KeyR"] THEN MOVE_SPEED ELSE 0) - (IF keys["KeyF"] THEN MOVE_SPEED ELSE 0)

\* { x: targetX, y: targetY, z: targetZ }
TargetVelocity(horizontal, targetY) == Vec(horizontal.x, targetY, horizontal.z)

\* as updateMovement, but without the test of controls.isLocked
updateMovementUnlocked(body, cam, locked, keys, ahead) ==
  IF ~body.exists THEN body.linvel
  ELSE TargetVelocity(TargetHorizontal(MoveDir(keys, Forward(cam), Right(Forward(cam))), ahead),
                      TargetY(body.linvel.y, keys))

\* the velocity updateMovement writes with playerBody.setLinvel, or the
\* body's velocity as it is when updateMovement returns early
updateMovement(body, cam, locked, keys, ahead) ==
  IF ~locked \/ ~body.exists THEN body.linvel
  ELSE TargetVelocity(TargetHorizontal(MoveDir(keys, Forward(cam), Right(Forward(cam))), ahead),
                      TargetY(body.linvel.y, keys))

\* ------------------------------------------------------------------ physics driver

\* as StepsFor, but running one step a frame at most
StepsForOneAtATime(acc) == Min(acc \div FIXED_TIME_STEP, 1)

\* as StepsFor, but rounding the tick count up
StepsForRoundedUp(acc) ==
  Min((acc + FIXED_TIME_STEP - 1) \div FIXED_TIME_STEP, MAX_SUBSTEPS)

\* steps of one animate(): Math.min(Math.floor(acc / FIXED_TIME_STEP), MAX_SUBSTEPS)
StepsFor(acc) == Min(acc \div FIXED_TIME_STEP, MAX_SUBSTEPS)

\* as FrameTime, but without the clamp
FrameTimeUnclamped(elapsed) == elapsed

\* frameTime: Math.min((currentTime - previousTime) / 1000, 0.1)
FrameTime(elapsed) == Min(elapsed, MAX_FRAME_TIME)

\* for (i < n) { world.step(); ... }: the body after the frame's n steps
WorldSteps(body, n, out) ==
  IF n > 0 THEN [body EXCEPT !.translation = out.translation, !.linvel = out.linvel]
  ELSE body

\* as Drain, but keeping only the part of a tick
DrainToRemainder(acc, n) == acc % FIXED_TIME_STEP

\* how often the body of for (let i = 0; i < n; i++) runs
Iterations(n) == IF n > 0 THEN n ELSE 0

\* for (i < n) { ...; physicsAccumulator -= FIXED_TIME_STEP }
Drain(acc, n) == acc - Iterations(n) * FIXED_TIME_STEP

\* feetY for a body at translation p
FeetY(p) == p.y - (PLAYER_HALF_HEIGHT + PLAYER_RADIUS)

\* as CameraPositionFor, but measuring the eye height from the body's centre
CameraAboveCentre(p) == Vec(p.x, p.y + PLAYER_EYE_HEIGHT, p.z)

\* the camera position the synchronizer sets for a body at translation p
CameraPositionFor(p) == Vec(p.x, FeetY(p) + PLAYER_EYE_HEIGHT, p.z)

\* if (playerBody) camera.position.set(...)
SyncCamera(cam, body) ==
  IF body.exists THEN [cam EXCEPT !.position = CameraPositionFor(body.translation)]
  ELSE cam

\* what a frame leaves: the body after its steps, the synchronized camera,
\* the drained accumulator, and the frame's frameTime and steps
FrameResult(body, cam, acc, ft, n) ==
  [body |-> body, camera |-> SyncCamera(cam, body), acc |-> Drain(acc + ft, n),
   frameTime |-> ft, steps |-> n, stepped |-> n > 0]

\* One call of animate(currentTime), elapsed = currentTime - previousTime:
\* what it leaves in the closure's variables.  `ahead` is the surface the
\* wall-slide ray meets; `out` is how the world leaves the body (translation,
\* linvel and the surface below it) after this frame's world.step() calls.
AnimateFrame(body, cam, locked, keys, acc, elapsed, ahead, out) ==
  FrameResult(WorldSteps([body EXCEPT !.linvel = updateMovement(body, cam, locked, keys, ahead)],
                         StepsFor(acc + FrameTime(elapsed)), out),
              cam, acc, FrameTime(elapsed), StepsFor(acc + FrameTime(elapsed)))

\* ------------------------------------------------------------------ init()

NoBody == [exists |-> FALSE, translation |-> Zero, linvel |-> Zero]

\* world.createRigidBody(bodyDesc): startY = 1.2, at rest
SpawnBody == [exists |-> TRUE, translation |-> Vec(0, 1200, 0), linvel |-> Zero]

\* camera.rotation.y = Math.PI: the default view direction -z turned to +z
InitialCamera == [position |-> Zero, direction |-> Vec(0, 0, ONE)]

NoCall == [fn |-> "none", desiredVel |-> Zero, ahead |-> NoHit, before |-> Zero,
           returned |-> FALSE, value |-> Zero, grounded |-> FALSE]

\* animate() is not running
NoFrame == [at |-> "idle", i |-> 0, log |-> <<>>]

\* no history is kept
NoLedger == [kept |-> FALSE, steps |-> 0, time |-> 0, monotone |-> TRUE]

\* the history of no frames
EmptyLedger == [kept |-> TRUE, steps |-> 0, time |-> 0, monotone |-> TRUE]

\* the history after one more animate() call with `elapsed` = currentTime -
\* previousTime that computed steps = n: the world.step() calls so far, the
\* sum so far of the elapsed times, each taken as at most 0.1 s, and whether
\* every timestamp so far was at least the one before it
Recorded(l, elapsed, n) ==
  IF l.kept
  THEN [l EXCEPT !.steps = @ + Iterations(n),
                 !.time = @ + (IF elapsed <= MAX_FRAME_TIME THEN elapsed ELSE MAX_FRAME_TIME),
                 !.monotone = @ /\ elapsed >= 0]
  ELSE l

\* The module has been evaluated: init() was called and is suspended at
\* await Promise.race([initPromise, timeoutPromise]).  `l` is the history kept.
Constructed(l) ==
  /\ initState = "awaitRapier"
  /\ rapierReady = FALSE
  /\ errorLogged = "nothing"
  /\ isLocked = FALSE
  /\ keyState = [c \in KeyCodes |-> FALSE]
  /\ debugMode = FALSE
  /\ splatsLoaded = FALSE
  /\ sceneChildren = {}
  /\ environment = [exists |-> FALSE, visible |-> FALSE]
  /\ playerBody = NoBody
  /\ downRay = NoHit
  /\ camera = InitialCamera
  /\ physicsAccumulator = 0
  /\ frameTime = 0
  /\ steps = 0
  /\ renders = [done |-> FALSE, position |-> Zero]
  /\ call = NoCall
  /\ frame = NoFrame
  /\ ledger = l

Init == Constructed(NoLedger)

\* init() from the line after the try/catch to its end.  new RAPIER.World
\* needs the initialised WASM module: without it the constructor throws, and
\* nothing catches it, so init() rejects before any handler is registered.
\* Otherwise the world and the body are created, the handlers registered, the
\* splat load started and animate(previousTime) called once, with no time
\* elapsed.  `below` is the surface the new world has under the spawn point.
RestOfInit(ready, below) ==
  IF ~ready
  THEN /\ initState' = "aborted"
       /\ UNCHANGED <<isLocked, keyState, debugMode, splatsLoaded, sceneChildren,
                      environment, playerBody, downRay, camera, physicsAccumulator,
                      frameTime, steps, renders, call, frame, ledger>>
  ELSE \E f \in {AnimateFrame(SpawnBody, InitialCamera, FALSE, keyState, 0, 0, NoHit,
                              [translation |-> Zero, linvel |-> Zero, below |-> NoHit])} :
           /\ initState' = "running"
           /\ playerBody' = f.body
           /\ downRay' = below
           /\ camera' = f.camera
           /\ physicsAccumulator' = f.acc
           /\ frameTime' = f.frameTime
           /\ steps' = f.steps
           /\ renders' = [done |-> TRUE, position |-> f.camera.position]
           /\ ledger' = Recorded(ledger, 0, f.steps)
           /\ UNCHANGED <<isLocked, keyState, debugMode, splatsLoaded, sceneChildren,
                          environment, call, frame>>

\* RAPIER.init() resolves before the timeout
RapierInitResolved(below) ==
  /\ initState = "awaitRapier"
  /\ rapierReady' = TRUE
  /\ errorLogged' = "nothing"
  /\ RestOfInit(TRUE, below)

\* RAPIER.init() rejects: the catch block logs and init() goes on
RapierInitRejected ==
  /\ initState = "awaitRapier"
  /\ rapierReady' = FALSE
  /\ errorLogged' = "init rejected"
  /\ RestOfInit(FALSE, NoHit)

\* the RAPIER_INIT_TIMEOUT timer rejects first: the same catch block
RapierInitTimeout ==
  /\ initState = "awaitRapier"
  /\ rapierReady' = FALSE
  /\ errorLogged' = "Rapier initialization timeout"
  /\ RestOfInit(FALSE, NoHit)

\* ------------------------------------------------------------------ asset load

\* the SplatMesh onLoad callback
OnLoad ==
  /\ initState = "running"
  /\ ~splatsLoaded
  /\ splatsLoaded' = TRUE
  /\ environment' = IF environment.exists THEN [environment EXCEPT !.visible = FALSE]
                    ELSE environment
  /\ sceneChildren' = sceneChildren \cup {"splatMesh"}
  /\ UNCHANGED <<initState, rapierReady, errorLogged, isLocked, keyState, debugMode,
                 playerBody, downRay, camera, physicsAccumulator, frameTime, steps,
                 renders, call, frame, ledger>>

\* ------------------------------------------------------------------ look controller

\* controls.lock() after a click on the start button
Lock ==
  /\ initState = "running"
  /\ ~isLocked
  /\ isLocked' = TRUE
  /\ UNCHANGED <<initState, rapierReady, errorLogged, keyState, debugMode, splatsLoaded,
                 sceneChildren, environment, playerBody, downRay, camera,
                 physicsAccumulator, frameTime, steps, renders, call, frame, ledger>>

\* the browser releases the pointer lock
Unlock ==
  /\ initState = "running"
  /\ isLocked
  /\ isLocked' = FALSE
  /\ UNCHANGED <<initState, rapierReady, errorLogged, keyState, debugMode, splatsLoaded,
                 sceneChildren, environment, playerBody, downRay, camera,
                 physicsAccumulator, frameTime, steps, renders, call, frame, ledger>>

\* PointerLockControls turns the camera on a mouse move while locked
MouseMove(d) ==
  /\ initState = "running"
  /\ isLocked
  /\ camera.direction # d
  /\ camera' = [camera EXCEPT !.direction = d]
  /\ UNCHANGED <<initState, rapierReady, errorLogged, isLocked, keyState, debugMode,
                 splatsLoaded, sceneChildren, environment, playerBody, downRay,
                 physicsAccumulator, frameTime, steps, renders, call, frame, ledger>>

\* ------------------------------------------------------------------ debug view

\* as toggleDebugMode, but without the test of splatsLoaded
toggleDebugModeUnguarded(mode, loaded, children, env) ==
  IF mode
  THEN [children    |-> (children \ {"splatMesh"}) \cup
                        (IF env.exists THEN {} ELSE {"environment"}),
        environment |-> [exists |-> TRUE, visible |-> TRUE]]
  ELSE [children    |-> children \cup {"splatMesh"},
        environment |-> IF env.exists THEN [env EXCEPT !.visible = FALSE] ELSE env]

\* as toggleDebugMode, but leaving the splat mesh in the scene
toggleDebugModeKeepingSplats(mode, loaded, children, env) ==
  IF ~loaded THEN [children |-> children, environment |-> env]
  ELSE IF mode
  THEN [children    |-> children \cup {"environment"},
        environment |-> [exists |-> TRUE, visible |-> TRUE]]
  ELSE [children    |-> children \cup {"splatMesh"},
        environment |-> IF env.exists THEN [env EXCEPT !.visible = FALSE] ELSE env]

\* toggleDebugMode(), called with debugMode already flipped to `mode`:
\* the scene's children and the wireframe mesh it leaves
toggleDebugMode(mode, loaded, children, env) ==
  IF ~loaded THEN [children |-> children, environment |-> env]
  ELSE IF mode
  THEN [children    |-> (children \ {"splatMesh"}) \cup
                        (IF env.exists THEN {} ELSE {"environment"}),
        environment |-> [exists |-> TRUE, visible |-> TRUE]]
  ELSE [children    |-> children \cup {"splatMesh"},
        environment |-> IF env.exists THEN [env EXCEPT !.visible = FALSE] ELSE env]

\* ------------------------------------------------------------------ keyboard

\* as SetKey, but a keydown flipping the entry
SetKeyFlipping(keys, code, held) ==
  [keys EXCEPT ![code] = IF held THEN ~keys[code] ELSE FALSE]

\* keyState[e.code] = held
SetKey(keys, code, held) == [keys EXCEPT ![code] = held]

\* as JumpVelocity, but jumping without asking the ground probe
JumpVelocityUngated(code, body, below) ==
  IF code = "Space" /\ body.exists
  THEN Vec(body.linvel.x, PLAYER_JUMP_SPEED, body.linvel.z)
  ELSE body.linvel

\* as JumpVelocity, but jumping on KeyM as well
JumpVelocityOnToggle(code, body, below) ==
  IF code \in {"Space", "KeyM"} /\ body.exists /\ IsPlayerGroundedOf(body, below)
  THEN Vec(body.linvel.x, PLAYER_JUMP_SPEED, body.linvel.z)
  ELSE body.linvel

\* as JumpVelocity, but jumping straight up from a standstill
JumpVelocityStopping(code, body, below) ==
  IF code = "Space" /\ body.exists /\ IsPlayerGroundedOf(body, below)
  THEN Vec(0, PLAYER_JUMP_SPEED, 0)
  ELSE body.linvel

\* the velocity the keydown handler leaves for e.code = code
JumpVelocity(code, body, below) ==
  IF code = "Space" /\ body.exists /\ IsPlayerGroundedOf(body, below)
  THEN Vec(body.linvel.x, PLAYER_JUMP_SPEED, body.linvel.z)
  ELSE body.linvel

\* the keydown handler
KeyDown(code) ==
  /\ initState = "running"
  /\ keyState' = SetKey(keyState, code, TRUE)
  /\ debugMode' = IF code = "KeyM" THEN ~debugMode ELSE debugMode
  /\ LET t == IF code = "KeyM"
              THEN toggleDebugMode(~debugMode, splatsLoaded, sceneChildren, environment)
              ELSE [children |-> sceneChildren, environment |-> environment]
     IN  /\ sceneChildren' = t.children
         /\ environment' = t.environment
  /\ playerBody' = [playerBody EXCEPT !.linvel = JumpVelocity(code, playerBody, downRay)]
  /\ UNCHANGED <<initState, rapierReady, errorLogged, isLocked, splatsLoaded, downRay,
                 camera, physicsAccumulator, frameTime, steps, renders, call, frame, ledger>>

\* the keyup handler
KeyUp(code) ==
  /\ initState = "running"
  /\ keyState' = SetKey(keyState, code, FALSE)
  /\ UNCHANGED <<initState, rapierReady, errorLogged, isLocked, debugMode, splatsLoaded,
                 sceneChildren, environment, playerBody, downRay, camera,
                 physicsAccumulator, frameTime, steps, renders, call, frame, ledger>>

\* ------------------------------------------------------------------ animation loop

\* the largest accumulator the model follows
MaxAccumulator == 30

\* the longest history the model follows, in grid points of time
MaxLedgerTime == 40

\* a requestAnimationFrame callback: animate(currentTime)
Animate(elapsed, ahead, out) ==
  /\ initState = "running"
  /\ \E f \in {AnimateFrame(playerBody, camera, isLocked, keyState, physicsAccumulator,
                            elapsed, ahead, out)} :
         /\ f.acc <= MaxAccumulator
         /\ f.acc >= -FIXED_TIME_STEP
         /\ ledger' = Recorded(ledger, elapsed, f.steps)
         /\ ledger'.time <= MaxLedgerTime
         /\ playerBody' = f.body
         /\ downRay' = IF f.stepped THEN out.below ELSE downRay
         /\ camera' = f.camera
         /\ physicsAccumulator' = f.acc
         /\ frameTime' = f.frameTime
         /\ steps' = f.steps
         /\ renders' = [done |-> TRUE, position |-> f.camera.position]
  /\ UNCHANGED <<initState, rapierReady, errorLogged, isLocked, keyState, debugMode,
                 splatsLoaded, sceneChildren, environment, call, frame>>

\* ------------------------------------------------------------------ animate(), statement by statement

\* as NextStatement, but with the camera synchronized before the loop
NextStatementSyncFirst(done, i, n) ==
  CASE done = "updateMovement"      -> "camera.position.set"
    [] done = "camera.position.set" -> IF i < n THEN "world.step" ELSE "renderer.render"
    [] done = "world.step"          -> IF i < n THEN "world.step" ELSE "renderer.render"
    [] OTHER                        -> "idle"

\* the statement animate() executes after `done`, with i world.step() calls
\* made of the frame's n: the loop while i < steps, then the camera
\* synchronizer, then renderer.render, after which animate() returns
NextStatement(done, i, n) ==
  CASE done = "updateMovement"      -> IF i < n THEN "world.step" ELSE "camera.position.set"
    [] done = "world.step"          -> IF i < n THEN "world.step" ELSE "camera.position.set"
    [] done = "camera.position.set" -> "renderer.render"
    [] OTHER                        -> "idle"

\* frame, after the statement `done` and i world.step() calls
Executed(done, i, n) ==
  [at |-> NextStatement(done, i, n), i |-> i, log |-> Append(frame.log, done)]

\* animate(currentTime) is called and runs up to the loop: frameTime,
\* updateMovement, physicsAccumulator += frameTime, steps
AnimateEnter(elapsed, ahead) ==
  /\ initState = "running"
  /\ frame.at = "idle"
  /\ frameTime' = FrameTime(elapsed)
  /\ playerBody' = [playerBody EXCEPT
                      !.linvel = updateMovement(playerBody, camera, isLocked, keyState, ahead)]
  /\ physicsAccumulator' = physicsAccumulator + FrameTime(elapsed)
  /\ steps' = StepsFor(physicsAccumulator + FrameTime(elapsed))
  /\ Drain(physicsAccumulator', steps') <= MaxAccumulator
  /\ frame' = [Executed("updateMovement", 0, steps') EXCEPT !.log = <<"updateMovement">>]
  /\ UNCHANGED <<initState, rapierReady, errorLogged, isLocked, keyState, debugMode,
                 splatsLoaded, sceneChildren, environment, downRay, camera, renders,
                 call, ledger>>

\* one iteration of the loop: world.step(); physicsAccumulator -= FIXED_TIME_STEP
AnimateStep(out) ==
  /\ frame.at = "world.step"
  /\ playerBody' = WorldSteps(playerBody, 1, out)
  /\ downRay' = out.below
  /\ physicsAccumulator' = Drain(physicsAccumulator, 1)
  /\ frame' = Executed("world.step", frame.i + 1, steps)
  /\ UNCHANGED <<initState, rapierReady, errorLogged, isLocked, keyState, debugMode,
                 splatsLoaded, sceneChildren, environment, camera, frameTime, steps,
                 renders, call, ledger>>

\* the camera synchronizer
AnimateSync ==
  /\ frame.at = "camera.position.set"
  /\ camera' = SyncCamera(camera, playerBody)
  /\ frame' = Executed("camera.position.set", frame.i, steps)
  /\ UNCHANGED <<initState, rapierReady, errorLogged, isLocked, keyState, debugMode,
                 splatsLoaded, sceneChildren, environment, playerBody, downRay,
                 physicsAccumulator, frameTime, steps, renders, call, ledger>>

\* renderer.render(scene, camera), and animate() returns
AnimateRender ==
  /\ frame.at = "renderer.render"
  /\ renders' = [done |-> TRUE, position |-> camera.position]
  /\ frame' = Executed("renderer.render", frame.i, steps)
  /\ UNCHANGED <<initState, rapierReady, errorLogged, isLocked, keyState, debugMode,
                 splatsLoaded, sceneChildren, environment, playerBody, downRay, camera,
                 physicsAccumulator, frameTime, steps, call, ledger>>

\* animate() contains no await: the event loop runs a handler or a callback
\* only when animate() is not on the stack
BetweenFrames == frame.at = "idle"

\* ------------------------------------------------------------------ the application

Up == Vec(0, ONE, 0)

\* surfaces a ray straight down can meet: none, level ground at the feet,
\* a steep face at the feet, level ground beyond the near-ground margin
SurfacesBelow ==
  {NoHit, Hit(420, Up), Hit(420, Vec(960, 280, 0)), Hit(900, Up)}

\* how a world.step() can leave the body: still in the air over the spawn
\* point, or moved off it with any of three velocities over any surface
StepOutcomes ==
  {[translation |-> Vec(0, 1150, 0), linvel |-> Vec(0, -3000, 0), below |-> NoHit]} \cup
  [translation : {Vec(1500, -480, -2500)},
   linvel      : {Zero, Vec(0, -3000, 0), Vec(500, 700, -250)},
   below       : SurfacesBelow]

\* surfaces the wall-slide ray can meet: none, a wall across +z whose normal
\* faces the player, the same with the normal turned away, a wall out of reach
SurfacesAhead ==
  {NoHit, Hit(100, Vec(0, 0, -ONE)), Hit(100, Vec(0, 0, ONE)), Hit(500, Vec(0, 0, ONE))}

\* directions the look controller can give the camera: as initialised, and
\* turned to +x and pitched down
CameraDirections == {Vec(0, 0, ONE), Vec(800, -600, 0)}

Keys == {"KeyW", "KeyM", "Space"}

\* elapsed times of a frame, in grid points: none, one tick
Elapsed == {0, FIXED_TIME_STEP}

\* the surfaces to choose from for a frame's wall-slide ray: the ray is cast
\* only in a locked frame with a movement key held
AheadFor(surfaces) ==
  IF isLocked /\ (\E c \in {"KeyW", "KeyS", "KeyD", "KeyA"} : keyState[c])
  THEN surfaces ELSE {NoHit}

\* the outcomes to choose from for a frame's world.step() calls: a frame
\* that runs no step leaves the world as it is
OutcomesFor(elapsed, outcomes) ==
  IF StepsFor(physicsAccumulator + Min(elapsed, MAX_FRAME_TIME)) > 0
  THEN outcomes
  ELSE {[translation |-> playerBody.translation, linvel |-> playerBody.linvel,
         below |-> downRay]}

\* a requestAnimationFrame callback with any of the inputs
Frame ==
  \E elapsed \in Elapsed :
    \E ahead \in AheadFor(SurfacesAhead), out \in OutcomesFor(elapsed, StepOutcomes) :
      Animate(elapsed, ahead, out)

Next ==
  \/ \E below \in SurfacesBelow : RapierInitResolved(below)
  \/ RapierInitRejected
  \/ RapierInitTimeout
  \/ OnLoad
  \/ Lock
  \/ Unlock
  \/ \E d \in CameraDirections : MouseMove(d)
  \/ \E code \in Keys : KeyDown(code)
  \/ \E code \in Keys : KeyUp(code)
  \/ Frame

Spec == Init /\ [][Next]_vars

\* ------------------------------------------------------------------ the physics driver alone

\* elapsed times of a frame: every grid point up to one tick past the clamp
ElapsedTimes == 0 .. (MAX_FRAME_TIME + FIXED_TIME_STEP)

\* the one way the world leaves the body in this specification: falling
Falling == [translation |-> Vec(0, 1150, 0), linvel |-> Vec(0, -3000, 0), below |-> NoHit]

\* init() succeeds, then frames of every elapsed time follow one another
NextDriver ==
  \/ RapierInitResolved(NoHit)
  \/ \E elapsed \in ElapsedTimes :
       \E out \in OutcomesFor(elapsed, {Falling}) : Animate(elapsed, NoHit, out)

SpecDriver == Init /\ [][NextDriver]_vars

\* animate() asks for the next frame first thing, requestAnimationFrame(animate),
\* so that as long as a frame would change anything, one comes
FramesKeepComing ==
  WF_vars(\E elapsed \in ElapsedTimes :
            \E out \in OutcomesFor(elapsed, {Falling}) : Animate(elapsed, NoHit, out))

\* as SpecDriver, with the frames that requestAnimationFrame owes
SpecBacklog == Init /\ [][NextDriver]_vars /\ FramesKeepComing

\* ------------------------------------------------------------------ the frame in steps

\* elapsed times: none, one tick, two ticks
FrameElapsed == {0, FIXED_TIME_STEP, 2 * FIXED_TIME_STEP}

\* how a world.step() can leave the body: falling over the spawn point, or
\* landed off it
FrameOutcomes ==
  {Falling,
   [translation |-> Vec(1500, -480, -2500), linvel |-> Zero, below |-> Hit(420, Up)]}

FrameKeys == {"KeyW", "KeyM", "Space"}

\* the application with animate() followed statement by statement
NextFrame ==
  \/ RapierInitResolved(NoHit)
  \/ BetweenFrames /\ OnLoad
  \/ BetweenFrames /\ Lock
  \/ BetweenFrames /\ Unlock
  \/ \E d \in CameraDirections : BetweenFrames /\ MouseMove(d)
  \/ \E code \in FrameKeys : BetweenFrames /\ KeyDown(code)
  \/ \E code \in FrameKeys : BetweenFrames /\ KeyUp(code)
  \/ \E elapsed \in FrameElapsed, ahead \in AheadFor(SurfacesAhead) : AnimateEnter(elapsed, ahead)
  \/ \E out \in FrameOutcomes : AnimateStep(out)
  \/ AnimateSync
  \/ AnimateRender

SpecFrame == Init /\ [][NextFrame]_vars

\* ------------------------------------------------------------------ the physics driver with its history

\* elapsed times of a frame: a timestamp one grid point before the previous
\* one, then every second grid point up to one past the clamp
LedgerElapsed == {-1} \cup {2 * k : k \in 0 .. (MAX_FRAME_TIME \div 2 + 1)} \cup {1}

\* init() succeeds, then frames of every elapsed time follow one another
NextLedger ==
  \/ RapierInitResolved(NoHit)
  \/ \E elapsed \in LedgerElapsed :
       \E out \in OutcomesFor(elapsed, {Falling}) : Animate(elapsed, NoHit, out)

\* as SpecDriver, keeping the history of the frames
SpecLedger == Constructed(EmptyLedger) /\ [][NextLedger]_vars

\* ------------------------------------------------------------------ the ground probe alone

\* hit distances around the two thresholds footOffset + 0.12 and footOffset + 0.6
ProbeDistances ==
  {0, FootOffset, FootOffset + 120, FootOffset + 121, FootOffset + 600, FootOffset + 601}

\* surface normals around the steepness threshold 0.3 (only y is read)
ProbeNormals == {Up, Vec(0, 301, 953), Vec(0, 300, 954), Vec(ONE, 0, 0), Vec(0, -ONE, 0)}

\* vertical velocities around the threshold 0.6
ProbeVelocities == {-3000, 0, 600, 601, PLAYER_JUMP_SPEED}

ProbeSurfaces == {NoHit} \cup {Hit(toi, n) : toi \in ProbeDistances, n \in ProbeNormals}

\* a running application whose body has any of the velocities over any surface
InitGround ==
  /\ initState = "running"
  /\ rapierReady = TRUE
  /\ errorLogged = "nothing"
  /\ isLocked = FALSE
  /\ keyState = [c \in KeyCodes |-> FALSE]
  /\ debugMode = FALSE
  /\ splatsLoaded = FALSE
  /\ sceneChildren = {}
  /\ environment = [exists |-> FALSE, visible |-> FALSE]
  /\ \E vy \in ProbeVelocities : playerBody = [SpawnBody EXCEPT !.linvel = Vec(0, vy, 0)]
  /\ downRay \in ProbeSurfaces
  /\ camera = [InitialCamera EXCEPT !.position = CameraPositionFor(SpawnBody.translation)]
  /\ physicsAccumulator = 0
  /\ frameTime = 0
  /\ steps = 0
  /\ renders = [done |-> TRUE, position |-> CameraPositionFor(SpawnBody.translation)]
  /\ call = NoCall
  /\ frame = NoFrame
  /\ ledger = NoLedger

\* a call of isPlayerGrounded()
CallIsPlayerGrounded ==
  /\ initState = "running"
  /\ call' = [NoCall EXCEPT !.fn = "isPlayerGrounded", !.returned = TRUE,
                            !.grounded = isPlayerGrounded]
  /\ UNCHANGED <<initState, rapierReady, errorLogged, isLocked, keyState, debugMode,
                 splatsLoaded, sceneChildren, environment, playerBody, downRay, camera,
                 physicsAccumulator, frameTime, steps, renders, frame, ledger>>

NextGround == CallIsPlayerGrounded

SpecGround == InitGround /\ [][NextGround]_vars

\* ------------------------------------------------------------------ the wall-slide adjuster alone

\* velocity components: multiples of 25, MOVE_SPEED among them
SlideComponents == {-MOVE_SPEED, -1500, 0, 25, MOVE_SPEED}

SlideVelocities == {Vec(x, y, z) : x \in SlideComponents, y \in {0, 700}, z \in SlideComponents}

\* unit normals: along the axes, skew in the horizontal plane, tilted out of
\* it, and level ground
SlideNormals ==
  {Vec(ONE, 0, 0), Vec(-ONE, 0, 0), Vec(0, 0, ONE), Vec(0, 0, -ONE),
   Vec(600, 0, 800), Vec(-600, 0, -800), Vec(-800, 0, 600),
   Vec(960, 280, 0), Vec(0, 280, -960), Up, Vec(6, ONE, 8)}

\* a wall within the lookahead PLAYER_RADIUS + 0.1, one beyond it, none
SlideSurfaces ==
  {NoHit} \cup {Hit(toi, n) : toi \in {100, PLAYER_RADIUS + 101}, n \in SlideNormals}

\* the application as init() leaves it, about to call adjustVelocityForWalls
\* with any of the velocities before any of the surfaces
InitWalls ==
  /\ initState = "running"
  /\ rapierReady = TRUE
  /\ errorLogged = "nothing"
  /\ isLocked = FALSE
  /\ keyState = [c \in KeyCodes |-> FALSE]
  /\ debugMode = FALSE
  /\ splatsLoaded = FALSE
  /\ sceneChildren = {}
  /\ environment = [exists |-> FALSE, visible |-> FALSE]
  /\ playerBody = SpawnBody
  /\ downRay = NoHit
  /\ camera = [InitialCamera EXCEPT !.position = CameraPositionFor(SpawnBody.translation)]
  /\ physicsAccumulator = 0
  /\ frameTime = 0
  /\ steps = 0
  /\ renders = [done |-> TRUE, position |-> CameraPositionFor(SpawnBody.translation)]
  /\ frame = NoFrame
  /\ ledger = NoLedger
  /\ \E v \in SlideVelocities, a \in SlideSurfaces :
       call = [NoCall EXCEPT !.fn = "adjustVelocityForWalls", !.desiredVel = v, !.ahead = a]

\* the call of adjustVelocityForWalls(desiredVel) returns
CallAdjustVelocityForWalls ==
  /\ call.fn = "adjustVelocityForWalls"
  /\ ~call.returned
  /\ call' = [call EXCEPT !.returned = TRUE,
                          !.value = adjustVelocityForWalls(call.desiredVel, call.ahead)]
  /\ UNCHANGED <<initState, rapierReady, errorLogged, isLocked, keyState, debugMode,
                 splatsLoaded, sceneChildren, environment, playerBody, downRay, camera,
                 physicsAccumulator, frameTime, steps, renders, frame, ledger>>

NextWalls == CallAdjustVelocityForWalls

SpecWalls == InitWalls /\ [][NextWalls]_vars

\* ------------------------------------------------------------------ the movement integrator alone

\* the keys updateMovement reads
MoveKeys == {"KeyW", "KeyS", "KeyD", "KeyA", "KeyR", "KeyF"}

\* body velocities before the call: at rest, falling askew, rising along -x
MoveVelocities == {Zero, Vec(500, -3000, -250), Vec(-MOVE_SPEED, 700, 0)}

\* camera directions: as initialised, turned to +x and pitched down, straight down
MoveDirections == {Vec(0, 0, ONE), Vec(800, -600, 0), Vec(0, -ONE, 0)}

\* a running application, locked or not, with any of the movement keys held,
\* the body moving at any of the velocities and the camera looking in any of
\* the directions, about to call updateMovement
InitMove ==
  /\ initState = "running"
  /\ rapierReady = TRUE
  /\ errorLogged = "nothing"
  /\ isLocked \in BOOLEAN
  /\ \E held \in SUBSET MoveKeys : keyState = [c \in KeyCodes |-> c \in held]
  /\ debugMode = FALSE
  /\ splatsLoaded = FALSE
  /\ sceneChildren = {}
  /\ environment = [exists |-> FALSE, visible |-> FALSE]
  /\ \E v \in MoveVelocities : playerBody = [SpawnBody EXCEPT !.linvel = v]
  /\ downRay = NoHit
  /\ \E d \in MoveDirections :
       camera = [position |-> CameraPositionFor(SpawnBody.translation), direction |-> d]
  /\ physicsAccumulator = 0
  /\ frameTime = 0
  /\ steps = 0
  /\ renders = [done |-> TRUE, position |-> CameraPositionFor(SpawnBody.translation)]
  /\ call = [NoCall EXCEPT !.fn = "updateMovement", !.before = playerBody.linvel]
  /\ frame = NoFrame
  /\ ledger = NoLedger

\* the call of updateMovement(frameTime) returns; `ahead` is the surface the
\* wall-slide ray meets
CallUpdateMovement(ahead) ==
  /\ call.fn = "updateMovement"
  /\ ~call.returned
  /\ \E v \in {updateMovement(playerBody, camera, isLocked, keyState, ahead)} :
       /\ playerBody' = [playerBody EXCEPT !.linvel = v]
       /\ call' = [call EXCEPT !.returned = TRUE, !.ahead = ahead, !.value = v]
  /\ UNCHANGED <<initState, rapierReady, errorLogged, isLocked, keyState, debugMode,
                 splatsLoaded, sceneChildren, environment, downRay, camera,
                 physicsAccumulator, frameTime, steps, renders, frame, ledger>>

NextMove == \E ahead \in AheadFor(SurfacesAhead) : CallUpdateMovement(ahead)

SpecMove == InitMove /\ [][NextMove]_vars

\* ------------------------------------------------------------------ claims

\* a step of SpecDriver that is a call of animate()
DriverFrame ==
  \E elapsed \in ElapsedTimes :
    \E out \in OutcomesFor(elapsed, {Falling}) : Animate(elapsed, NoHit, out)

C2_StepsAreCappedTicks ==
  [][DriverFrame =>
       LET accumulated == physicsAccumulator + frameTime'
           ticks       == accumulated \div FIXED_TIME_STEP
       IN  /\ steps' = IF ticks <= MAX_SUBSTEPS THEN ticks ELSE MAX_SUBSTEPS
           /\ physicsAccumulator' = accumulated - steps' * FIXED_TIME_STEP
           /\ ticks > MAX_SUBSTEPS =>
                /\ steps' = MAX_SUBSTEPS
                /\ physicsAccumulator' = accumulated - MAX_SUBSTEPS * FIXED_TIME_STEP
                /\ physicsAccumulator' >= FIXED_TIME_STEP]_vars

\* C2: a frame that hit the cap and left more than a tick behind
C2_Witness ==
  /\ initState = "running"
  /\ steps = MAX_SUBSTEPS
  /\ physicsAccumulator > FIXED_TIME_STEP

\* C3: a Space keydown while isPlayerGrounded() reports false leaves the
\* body's velocity, vertical and horizontal, as it was.
C3_NoJumpOffTheGround ==
  [][(KeyDown("Space") /\ ~isPlayerGrounded) =>
       playerBody'.linvel = playerBody.linvel]_vars

\* C3: Space is held, the probe reports false and the body moves, at another
\* speed than the jump speed
C3_Witness ==
  /\ initState = "running"
  /\ keyState["Space"]
  /\ ~isPlayerGrounded
  /\ playerBody.linvel # Zero
  /\ playerBody.linvel.y # PLAYER_JUMP_SPEED

\* C4, as stated: once the splats are loaded, exactly one of the splat mesh
\* and the wireframe mesh is a child of the scene.
C4_OneMeshIsChildOfScene ==
  splatsLoaded => Cardinality(sceneChildren \cap {"splatMesh", "environment"}) = 1

\* C4, amended: once the splats are loaded, exactly one of the two is shown:
\* either the splat mesh is a child of the scene, or the wireframe mesh is a
\* child of the scene and visible (once created it stays a child of the scene
\* and is hidden through its visible flag).
C4_OneMeshIsShown ==
  splatsLoaded =>
    ("splatMesh" \in sceneChildren) #
      ("environment" \in sceneChildren /\ environment.exists /\ environment.visible)

\* C4: after the load the view was toggled to the wireframe and back
C4_Witness ==
  /\ splatsLoaded
  /\ environment.exists
  /\ ~environment.visible
  /\ "splatMesh" \in sceneChildren

\* C5: a KeyM keydown before the splats are loaded changes neither the scene
\* graph nor the debug mode flag.
C5_ToggleBeforeLoadIsNoOp ==
  [][(KeyDown("KeyM") /\ ~splatsLoaded) =>
       /\ sceneChildren' = sceneChildren
       /\ environment' = environment
       /\ debugMode' = debugMode]_vars

\* C6: isPlayerGrounded() returns true exactly when the ray cast over
\* half-height + radius + 0.6 returns a hit, the hit is no farther than
\* half-height + radius + 0.12, its normal's y is above 0.3 and the body's
\* vertical velocity is at most 0.6; no hit gives false, and with the same
\* surface any vertical velocity above 0.6 gives false.
C6_GroundedExactlyWhen ==
  (call.fn = "isPlayerGrounded" /\ call.returned) =>
    /\ call.grounded =
         (/\ downRay.hit
          /\ downRay.toi <= PLAYER_HALF_HEIGHT + PLAYER_RADIUS + 600
          /\ downRay.toi <= PLAYER_HALF_HEIGHT + PLAYER_RADIUS + 120
          /\ downRay.normal.y > 300
          /\ playerBody.linvel.y <= 600)
    /\ ~downRay.hit => ~call.grounded
    /\ \A vy \in ProbeVelocities :
         vy > 600 => ~IsPlayerGroundedOf([playerBody EXCEPT !.linvel.y = vy], downRay)

\* C6: the probe returned true at both thresholds: a hit at exactly
\* half-height + radius + 0.12 with the body rising at exactly 0.6
C6_Witness ==
  /\ call.fn = "isPlayerGrounded" /\ call.returned /\ call.grounded
  /\ downRay.toi = PLAYER_HALF_HEIGHT + PLAYER_RADIUS + 120
  /\ playerBody.linvel.y = 600

\* the camera position C7 states for a body at translation p
C7_Expected(p) ==
  Vec(p.x, p.y - (PLAYER_HALF_HEIGHT + PLAYER_RADIUS) + PLAYER_EYE_HEIGHT, p.z)

\* C7: at the end of every frame, and in what the frame rendered, the camera
\* is at (x, y - (PLAYER_HALF_HEIGHT + PLAYER_RADIUS) + PLAYER_EYE_HEIGHT, z)
\* for the body's translation (x, y, z) after the frame's steps; and the
\* camera's direction changes only in a mouse move of the look controller,
\* never in a frame.
C7_CameraAtEyeHeightAboveFeet ==
  /\ [](initState = "running" =>
          /\ camera.position = C7_Expected(playerBody.translation)
          /\ renders.done /\ renders.position = C7_Expected(playerBody.translation))
  /\ [][camera'.direction # camera.direction => MouseMove(camera'.direction)]_vars

\* C7: the world has moved the body off its spawn point, and the look
\* controller has turned the camera
C7_Witness ==
  /\ initState = "running"
  /\ steps > 0
  /\ playerBody.translation # SpawnBody.translation
  /\ camera.direction # InitialCamera.direction

\* squared horizontal magnitude of a velocity
HorizontalSq(v) == v.x * v.x + v.z * v.z

\* C8: whatever the velocity and whatever the ray cast returns, the velocity
\* adjustVelocityForWalls returns is horizontally no faster than its argument
\* and has the same vertical component.
C8_SlideNeverFaster ==
  (call.fn = "adjustVelocityForWalls" /\ call.returned) =>
    /\ HorizontalSq(call.value) <= HorizontalSq(call.desiredVel)
    /\ call.value.y = call.desiredVel.y

\* C8: the adjuster took a component off a velocity that is still nonzero
C8_Witness ==
  /\ call.fn = "adjustVelocityForWalls" /\ call.returned
  /\ call.value # call.desiredVel
  /\ HorizontalSq(call.value) > 0

\* C9: when the ray meets, within the lookahead, a wall whose normal has a
\* horizontal part and faces the player (d . n < 0), the returned velocity has
\* no component into the wall: v' . n_h >= 0.
C9_NoComponentIntoFacingWall ==
  (/\ call.fn = "adjustVelocityForWalls" /\ call.returned
   /\ call.ahead.hit /\ call.ahead.toi <= PLAYER_RADIUS + 100
   /\ HorizontalSq(call.ahead.normal) > 0
   /\ call.desiredVel.x * call.ahead.normal.x + call.desiredVel.z * call.ahead.normal.z < 0)
  => call.value.x * call.ahead.normal.x + call.value.z * call.ahead.normal.z >= 0

\* C10: when Rapier's initialization fails or times out, init() logs the
\* error and still runs to its end, starting the animation loop, so that a
\* frame is rendered.
C10_InitSurvivesRapierFailure ==
  errorLogged # "nothing" => (initState = "running" /\ renders.done)

\* updateMovement has returned
MovementWritten == call.fn = "updateMovement" /\ call.returned

\* C11: when the look controller is not locked, updateMovement leaves the
\* body's velocity as it was, whatever keys are held.
C11_UnlockedFrameKeepsVelocity ==
  (MovementWritten /\ ~isLocked) => playerBody.linvel = call.before

\* C11: not locked, a movement key and a fly key held, the body moving
C11_Witness ==
  /\ MovementWritten /\ ~isLocked
  /\ keyState["KeyW"] /\ keyState["KeyR"]
  /\ call.before # Zero

\* C16: in a locked frame with a net move direction of zero (no movement key
\* held, or KeyW with KeyS and/or KeyD with KeyA held and nothing left over),
\* the x and z velocity updateMovement writes are zero, whatever the body's
\* horizontal velocity was before.
C16_NetZeroDirectionStops ==
  (/\ MovementWritten /\ isLocked
   /\ keyState["KeyW"] = keyState["KeyS"]
   /\ keyState["KeyD"] = keyState["KeyA"])
  => (playerBody.linvel.x = 0 /\ playerBody.linvel.z = 0)

\* C16: locked, KeyW and KeyS held together and nothing else, and the body
\* had a horizontal velocity before the call
C16_Witness ==
  /\ MovementWritten /\ isLocked
  /\ keyState["KeyW"] /\ keyState["KeyS"] /\ ~keyState["KeyD"] /\ ~keyState["KeyA"]
  /\ call.before.x # 0
  /\ playerBody.linvel.x = 0

\* C17: in a locked frame the y velocity updateMovement writes is the body's
\* y velocity before the call, plus MOVE_SPEED if KeyR is held, minus
\* MOVE_SPEED if KeyF is held; with neither or both held it is written back
\* unchanged; whatever movement keys are held and whatever the wall-slide
\* adjuster returns.
C17_VerticalVelocityFromFlyKeys ==
  (MovementWritten /\ isLocked) =>
    /\ playerBody.linvel.y =
         call.before.y + (IF keyState["KeyR"] THEN MOVE_SPEED ELSE 0)
                       - (IF keyState["KeyF"] THEN MOVE_SPEED ELSE 0)
    /\ keyState["KeyR"] = keyState["KeyF"] => playerBody.linvel.y = call.before.y

\* C17: locked, KeyR held without KeyF while the body was falling, and the
\* wall-slide adjuster took the whole horizontal velocity off at a wall
C17_Witness ==
  /\ MovementWritten /\ isLocked
  /\ keyState["KeyR"] /\ ~keyState["KeyF"] /\ keyState["KeyW"]
  /\ call.before.y < 0
  /\ call.ahead.hit
  /\ playerBody.linvel.x = 0 /\ playerBody.linvel.z = 0

\* C12: a keydown for code c sets keyState[c] to true and a keyup sets it to
\* false, every other key's entry staying as it was; a keydown for a key that
\* is already held leaves keyState as the first keydown left it.
C12_KeyStateFollowsEvents ==
  [][\A c \in Keys :
       /\ KeyDown(c) =>
            /\ keyState'[c] = TRUE
            /\ \A other \in KeyCodes \ {c} : keyState'[other] = keyState[other]
            /\ keyState[c] => keyState' = keyState
       /\ KeyUp(c) =>
            /\ keyState'[c] = FALSE
            /\ \A other \in KeyCodes \ {c} : keyState'[other] = keyState[other]]_vars

\* C12: two keys are held, and a third was pressed and released
C12_Witness ==
  /\ keyState["KeyW"] /\ keyState["Space"]
  /\ ~keyState["KeyM"] /\ debugMode

\* C13: in every reachable state the splat mesh is a child of the scene only
\* if onLoad has fired, and before onLoad has fired the wireframe mesh does
\* not exist (and so is no child of the scene).
C13_NothingShownBeforeLoad ==
  /\ "splatMesh" \in sceneChildren => splatsLoaded
  /\ ~splatsLoaded => (~environment.exists /\ "environment" \notin sceneChildren)

\* C13: before the load, KeyM is held with the debug mode flag set, and
\* frames have stepped the world
C13_Witness ==
  /\ initState = "running" /\ ~splatsLoaded
  /\ keyState["KeyM"] /\ debugMode
  /\ steps > 0
  /\ sceneChildren = {}

\* C14: once the splats are loaded, debugMode is true exactly when the splat
\* mesh is no child of the scene and the wireframe mesh exists and is visible,
\* and false exactly when the splat mesh is a child of the scene and the
\* wireframe mesh, if created, is not visible; whatever KeyM keydowns
\* happened, before the load or after it.
C14_DebugModeDeterminesView ==
  splatsLoaded =>
    /\ debugMode = (/\ "splatMesh" \notin sceneChildren
                    /\ environment.exists /\ environment.visible)
    /\ (~debugMode) = (/\ "splatMesh" \in sceneChildren
                       /\ ~(environment.exists /\ environment.visible))

\* C15: a Space keydown while isPlayerGrounded() reports true sets the body's
\* y velocity to PLAYER_JUMP_SPEED and leaves its x and z velocity as they
\* were, at the keydown itself, locked or not and in debug mode or not.
C15_GroundedJump ==
  [][(KeyDown("Space") /\ isPlayerGrounded) =>
       playerBody'.linvel =
         Vec(playerBody.linvel.x, PLAYER_JUMP_SPEED, playerBody.linvel.z)]_vars

\* C15: the body has jumped while moving horizontally
C15_Witness ==
  /\ initState = "running"
  /\ keyState["Space"]
  /\ playerBody.linvel.y = PLAYER_JUMP_SPEED
  /\ playerBody.linvel.z # 0

\* C19: a KeyM keydown, before the load or after it, leaves the body's
\* translation and velocity, the world under it and the accumulator as they
\* were, and the next frame, whatever its elapsed time and whatever the wall
\* ray meets, runs the same number of steps and leaves the same body, camera
\* and accumulator as it would have without the keydown.
C19_ToggleLeavesPhysics ==
  [][KeyDown("KeyM") =>
       /\ playerBody' = playerBody
       /\ downRay' = downRay
       /\ physicsAccumulator' = physicsAccumulator
       /\ \A elapsed \in Elapsed, ahead \in SurfacesAhead :
            \A untoggled \in {AnimateFrame(playerBody, camera, isLocked, keyState,
                                          physicsAccumulator, elapsed, ahead, Falling)},
               toggled \in {AnimateFrame(playerBody', camera', isLocked', keyState',
                                       physicsAccumulator', elapsed, ahead, Falling)} :
              toggled = untoggled]_vars

\* C19: the view was toggled to the wireframe while locked with KeyW held,
\* and a frame has stepped the world with KeyM still held
C19_Witness ==
  /\ splatsLoaded /\ debugMode /\ environment.visible
  /\ keyState["KeyM"] /\ keyState["KeyW"] /\ isLocked
  /\ steps > 0

\* C20: at the end of every frame, physicsAccumulator + FIXED_TIME_STEP *
\* (world.step() calls so far) is the sum over the frames so far of
\* min(elapsed, 0.1 s); no frame's frameTime is above 0.1 s; and as long as
\* no timestamp was below the one before it, the accumulator is not negative.
C20_TimeIsConserved ==
  (initState = "running" /\ ledger.kept) =>
    /\ physicsAccumulator + FIXED_TIME_STEP * ledger.steps = ledger.time
    /\ frameTime <= MAX_FRAME_TIME
    /\ ledger.monotone => physicsAccumulator >= 0

\* C20: after several frames, one of them clamped and capped, with a tick or
\* more left in the accumulator
C20_Witness ==
  /\ initState = "running" /\ ledger.kept /\ ledger.monotone
  /\ ledger.time > 2 * MAX_FRAME_TIME - FIXED_TIME_STEP
  /\ ledger.steps > MAX_SUBSTEPS
  /\ physicsAccumulator > FIXED_TIME_STEP

\* the k-th statement of a frame that runs n steps
C18_Statement(k, n) ==
  IF k = 1 THEN "updateMovement"
  ELSE IF k <= n + 1 THEN "world.step"
  ELSE IF k = n + 2 THEN "camera.position.set"
  ELSE "renderer.render"

\* C18: in every frame updateMovement comes first, then all of the frame's
\* world.step() calls, then the camera synchronizer, then renderer.render,
\* and the frame ends only after all of them; what the frame renders is the
\* camera position for the body as the frame's steps left it; and while
\* animate() is running no key handler, load callback or lock change acts.
C18_FrameOrder ==
  /\ [](/\ Len(frame.log) <= steps + 3
        /\ \A k \in 1 .. Len(frame.log) : frame.log[k] = C18_Statement(k, steps)
        /\ (frame.at = "idle" /\ frame.log # <<>>) =>
             /\ Len(frame.log) = steps + 3
             /\ renders.position = CameraPositionFor(playerBody.translation))
  /\ [][frame.at # "idle" =>
          /\ UNCHANGED <<keyState, isLocked, debugMode, splatsLoaded, sceneChildren,
                         environment>>
          /\ camera'.direction = camera.direction]_vars

\* C18: a frame has ended that ran two steps, the second of which moved the
\* body, while a movement key was held in a locked frame
C18_Witness ==
  /\ frame.at = "idle"
  /\ Len(frame.log) = 5
  /\ playerBody.translation = Vec(1500, -480, -2500)
  /\ isLocked /\ keyState["KeyW"]

\* C21: if from some frame on every frame's elapsed time is below
\* MAX_SUBSTEPS * FIXED_TIME_STEP, then whatever backlog the substep cap had
\* left in the accumulator, after finitely many frames the accumulator is
\* below FIXED_TIME_STEP and stays below it from then on.
C21_BacklogIsWorkedOff ==
  <>[](frameTime < MAX_SUBSTEPS * FIXED_TIME_STEP)
    => <>[](physicsAccumulator < FIXED_TIME_STEP)

\* C21: a frame shorter than MAX_SUBSTEPS * FIXED_TIME_STEP met a backlog, ran
\* MAX_SUBSTEPS steps and still left a tick or more for the frames after it
C21_Witness ==
  /\ initState = "running"
  /\ 0 < frameTime /\ frameTime < MAX_SUBSTEPS * FIXED_TIME_STEP
  /\ steps = MAX_SUBSTEPS
  /\ physicsAccumulator >= FIXED_TIME_STEP

====
